---- MODULE Spec2Model ----
(***************************************************************************)
(* Model of the DGM digit-recognition demo ("Demo ICR.cpp": a three-layer  *)
(* perceptron trained by online back-propagation) and of the thread-local  *)
(* random number facility (modules/DGM/Random.h) that initialises it.      *)
(*                                                                         *)
(* Arithmetic.  The program computes in float/double.  The model computes  *)
(* in fixed point: a real x is the integer round(x * Scale), and every     *)
(* multiplication and division rounds its result to the nearest unit, as   *)
(* every floating-point operation rounds its result.  Like the float       *)
(* sigmoid, the fixed-point sigmoid saturates to exactly 0 and exactly 1.  *)
(* Sequences are 1-based: the C++ index i is the TLA+ index i + 1; class   *)
(* labels and the predicted class keep their 0-based values.               *)
(***************************************************************************)
EXTENDS Integers, Sequences, FiniteSets, TLC

\* ------------------------------------------------------------------ bounds
Scale == 1000               \* fixed-point unit: x is stored as round(x * Scale)
NumInput == 2               \* numNeuronsInputLayer  (784 in the program)
NumHidden == 2              \* numNeuronsHiddenLayer (60 in the program)
NumOutput == 2              \* numNeuronsOutputLayer (10 in the program)
DataSize == 2               \* dataSize     (4000 in the program)
TestDataSize == 1           \* testDataSize (2000 in the program)
MaxSeed == 1                \* seeds clock() + hash(thread id) range over 0..MaxSeed
NumThreads == 2             \* threads calling the random facility
MaxCalls == 3               \* calls of u, U, N explored by SpecRandom

\* --------------------------------------------------- fixed-point arithmetic
\* n / d rounded to the nearest integer, halves away from zero
RoundDiv(n, d) == IF n >= 0 THEN (n + d \div 2) \div d
                            ELSE -((d \div 2 - n) \div d)

\* the product of two fixed-point numbers
Mul(a, b) == RoundDiv(a * b, Scale)

\* the quotient of two fixed-point numbers
Quot(a, b) == RoundDiv(a * Scale, b)

\* e in fixed point
EulerE == RoundDiv(2718 * Scale, 1000)

\* exp(q) for a natural number q
RECURSIVE ExpInt(_)
ExpInt(q) == IF q = 0 THEN Scale ELSE Mul(EulerE, ExpInt(q - 1))

\* exp(r) for 0 <= r < 1, by its Taylor polynomial of degree 5
ExpFrac(r) ==
    LET t2 == RoundDiv(Mul(r, r), 2)
        t3 == RoundDiv(Mul(t2, r), 3)
        t4 == RoundDiv(Mul(t3, r), 4)
        t5 == RoundDiv(Mul(t4, r), 5)
    IN  Scale + r + t2 + t3 + t4 + t5

\* exp(x): overflows to infinity (here: -1) for large x, underflows to 0 for
\* very negative x, as the float exp does
exp(x) ==
    LET a == IF x >= 0 THEN x ELSE -x
        p == Mul(ExpInt(a \div Scale), ExpFrac(a % Scale))
    IN  IF a >= 7 * Scale THEN (IF x >= 0 THEN -1 ELSE 0)
        ELSE IF x >= 0 THEN p ELSE Quot(Scale, p)

\* float applySigmoidFunction(float val): 1 / (1 + exp(-val))
applySigmoidFunction(val) ==
    LET e == exp(-val)
    IN  IF e = -1 THEN 0 ELSE Quot(Scale, Scale + e)

\* ------------------------------------------------------------------- state
VARIABLES
    pc,               \* position of main()
    vpInputLayer,     \* the three layers: sequences of neurons
    vpHiddenLayer,
    vpOutputLayer,
    trainDataDigit,   \* labels returned by readGroundTruth
    testDataDigit,
    k,                \* training loop index
    z,                \* testing loop index
    resultErrorRate,  \* main's error buffer of the current sample
    DeltaWjk,         \* backPropagate's locals
    DeltaJ,
    number,           \* predicted class of the current test sample
    correct,
    uncorrect,
    generator,        \* Random.h: the generator object of each (thread, function)
    ub,               \* kinds of undefined behaviour executed so far
    \* history variables, read by the properties only
    rngLog,           \* calls by, and seedings and advances of, each generator
    entry,            \* the layers as they were on entry to backPropagate
    processed,        \* training sample indices completed, in order
    steps,            \* steps taken for the current training sample
    dotLog            \* the last two dotProd calls of each layer pair

nnVars == <<pc, vpInputLayer, vpHiddenLayer, vpOutputLayer, trainDataDigit,
            testDataDigit, k, z, resultErrorRate, DeltaWjk, DeltaJ, number,
            correct, uncorrect, ub, entry, processed, steps, dotLog>>
rngVars == <<generator, rngLog>>
vars == <<nnVars, rngVars>>

\* ------------------------------------------------- Random.h: the generators
Threads == 1..NumThreads
MainThread == 1
Funcs == {"u", "U", "N"}
Slots == Threads \X Funcs
SeedVals == 0..MaxSeed

\* `static' without thread_local: one generator per function, shared by all
\* threads
GeneratorShared(t, f) == <<MainThread, f>>

\* static thread_local std::mt19937 generator: one object per thread and
\* function
GeneratorOf(t, f) == <<t, f>>

\* std::mt19937 stands outside the repository; a full-period congruential
\* generator on 0..15 stands in for it
GenSeed(seed) == seed % 16
GenNext(s) == (13 * s + 9) % 16

\* the generator state after n advances
RECURSIVE GenAdvance(_, _)
GenAdvance(s, n) == IF n = 0 THEN s ELSE GenNext(GenAdvance(s, n - 1))

\* n consecutive calls of the generator-backed function f on thread t: the
\* generator is constructed from `seed' (clock() + hash of the thread id) the
\* first time control passes its declaration, and each call's distribution
\* advances it once.  raws[j] is what the j-th call draws.
DrawMany(r, t, f, seed, n) ==
    LET s     == GeneratorOf(t, f)
        old   == r.generator[s]
        start == IF old.init THEN old.state ELSE GenSeed(seed)
    IN  IF n = 0 THEN [generator |-> r.generator, log |-> r.log, raws |-> <<>>]
        ELSE [generator |-> [r.generator EXCEPT
                                ![s] = [init |-> TRUE, state |-> GenAdvance(start, n)]],
              log |-> [calls    |-> [r.log.calls EXCEPT ![<<t, f>>] = @ + n],
                       seedings |-> IF old.init THEN r.log.seedings
                                    ELSE [r.log.seedings EXCEPT ![s] = @ + 1],
                       advances |-> [r.log.advances EXCEPT ![s] = @ + n]],
              raws |-> [j \in 1..n |-> GenAdvance(start, j)]]

\* std::uniform_real_distribution<T>(min, max): half-open interval
UniformReal(raw, min, max) == min + ((max - min) * raw) \div 16

NoGenerator == [init |-> FALSE, state |-> 0]

RngInit ==
    /\ generator = [s \in Slots |-> NoGenerator]
    /\ rngLog = [calls |-> [s \in Slots |-> 0], seedings |-> [s \in Slots |-> 0],
                 advances |-> [s \in Slots |-> 0]]

\* the three random functions called from any thread (SpecRandom)
TotalCalls ==
    LET RECURSIVE Sum(_)
        Sum(S) == IF S = {} THEN 0
                  ELSE LET s == CHOOSE x \in S : TRUE
                       IN  rngLog.calls[s] + Sum(S \ {s})
    IN  Sum(Slots)

RngCall(t, f) ==
    /\ TotalCalls < MaxCalls
    /\ \E seed \in SeedVals :
         LET d == DrawMany([generator |-> generator, log |-> rngLog], t, f, seed, 1)
         IN  generator' = d.generator /\ rngLog' = d.log
    /\ UNCHANGED nnVars

\* T u(T min, T max)
Call_u == \E t \in Threads : RngCall(t, "u")
\* T U(T min = 0, T max = 1)
Call_U == \E t \in Threads : RngCall(t, "U")
\* T N(T mu = 0, T sigma = 1)
Call_N == \E t \in Threads : RngCall(t, "N")

\* --------------------------------------------------- DNN.h: neurons, layers
\* CNeuron(numWeights, value = 0): a weight row of numWeights entries
CNeuron(numWeights, value) ==
    [m_value |-> value, m_vWeights |-> [j \in 1..numWeights |-> 0]]

getNodeValue(n) == n.m_value
setNodeValue(n, v) == [n EXCEPT !.m_value = v]
WeightIndexOK(n, j) == j \in 1..Len(n.m_vWeights)
\* an index outside the row is undefined behaviour; the actions record it in ub
getWeight(n, j) == IF WeightIndexOK(n, j) THEN n.m_vWeights[j] ELSE 0

\* CNeuron::generateRandomWeights: every entry of the row is a fresh
\* U(min, max) over a symmetric range; raws[offset + j] is what the call for
\* entry j draws.  The range is scaled with the layer sizes so that, as in
\* the 784-input network, the weighted sums reach the saturation of the
\* sigmoid.
generateRandomWeights(n, raws, offset) ==
    [n EXCEPT !.m_vWeights =
        [j \in DOMAIN @ |-> UniformReal(raws[offset + j], -8 * Scale, 8 * Scale)]]

\* the number of weights of a layer
WeightCount(layer) == IF Len(layer) = 0 THEN 0
                      ELSE Len(layer) * Len(layer[1].m_vWeights)

\* for (i...) vpLayer[i]->generateRandomWeights(): neuron after neuron
InitLayer(layer, raws, offset) ==
    [i \in 1..Len(layer) |->
        generateRandomWeights(layer[i], raws,
                              offset + (i - 1) * Len(layer[i].m_vWeights))]

Values(layer) == [i \in 1..Len(layer) |-> getNodeValue(layer[i])]

\* -------------------------------------------------------------- dotProd
\* value += a->getWeight(i) * a->getNodeValue() over the first n neurons of
\* vpLayerA, starting from `start'
RECURSIVE Accumulate(_, _, _, _)
Accumulate(vpLayerA, i, n, start) ==
    IF n = 0 THEN start
    ELSE Accumulate(vpLayerA, i, n - 1, start)
         + Mul(getWeight(vpLayerA[n], i), getNodeValue(vpLayerA[n]))

\* a dotProd that forgets `float value = 0': it accumulates onto the value the
\* downstream neuron already holds
dotProdNoReset(vpLayerA, vpLayerB) ==
    [i \in 1..Len(vpLayerB) |->
        setNodeValue(vpLayerB[i], applySigmoidFunction(
            Accumulate(vpLayerA, i, Len(vpLayerA), getNodeValue(vpLayerB[i]))))]

\* a dotProd whose inner loop misses the last upstream neuron
dotProdShort(vpLayerA, vpLayerB) ==
    [i \in 1..Len(vpLayerB) |->
        setNodeValue(vpLayerB[i], applySigmoidFunction(
            Accumulate(vpLayerA, i, Len(vpLayerA) - 1, 0)))]

\* void dotProd(vpLayerA, vpLayerB): the new vpLayerB
dotProd(vpLayerA, vpLayerB) ==
    [i \in 1..Len(vpLayerB) |->
        setNodeValue(vpLayerB[i], applySigmoidFunction(
            Accumulate(vpLayerA, i, Len(vpLayerA), 0)))]

\* every a->getWeight(i) of dotProd(vpLayerA, vpLayerB) is inside a's row
DotProdInRange(vpLayerA, vpLayerB) ==
    \A a \in 1..Len(vpLayerA) : \A i \in 1..Len(vpLayerB) :
        WeightIndexOK(vpLayerA[a], i)

\* the history of dotProd calls of one layer pair: the last two calls
LogCall(log, vpLayerA, newB) ==
    LET rec == [A |-> vpLayerA, out |-> Values(newB)]
    IN  IF Len(log) = 0 THEN <<rec>> ELSE <<log[Len(log)], rec>>

\* ---------------------------------------------------- readGroundTruth
\* A label file: whether it opens, the integers in it, and whether white
\* space (a final newline) follows the last integer.
LabelVals == {0, NumOutput - 1}
RECURSIVE SeqsOf(_, _)
SeqsOf(S, n) == IF n = 0 THEN {<<>>}
                ELSE {Append(q, x) : q \in SeqsOf(S, n - 1), x \in S}
GtFiles(n) ==
    {[open |-> FALSE, ints |-> <<>>, trailing |-> FALSE]}
    \cup {[open |-> TRUE, ints |-> q, trailing |-> t] :
            q \in SeqsOf(LabelVals, n) \cup (IF n > 0 THEN SeqsOf(LabelVals, n - 1) ELSE {}),
            t \in BOOLEAN}

\* static_cast<byte>(val)
ToByte(val) == val % 256

\* while (!inFile.eof()) { inFile >> val; res.push_back(val); }
\* eof is set only by a read that hits the end: after the last integer when
\* nothing follows it; otherwise one more extraction runs, fails, stores 0 in
\* val, and that 0 is pushed too.
readGroundTruth(file) ==
    LET read == [i \in 1..Len(file.ints) |-> ToByte(file.ints[i])]
    IN  IF ~file.open THEN <<>>
        ELSE IF file.trailing \/ Len(file.ints) = 0 THEN Append(read, ToByte(0))
        ELSE read

\* ------------------------------------------------------------ readImgData
\* trainDataBin[m][l] = abs(pixel - 255): an image is NumInput values in
\* 0..255; the model draws the images whose first n pixels are 255 and whose
\* other pixels are 0, for n = 0 (blank), 1 and NumInput (full)
Images == {[l \in 1..NumInput |-> IF l <= n THEN 255 ELSE 0] : n \in {0, 1, NumInput}}

\* float val = (float)trainDataBin[k][i] / 255; vpInputLayer[i]->setNodeValue(val)
LoadImage(layer, img) ==
    [i \in 1..Len(layer) |-> setNodeValue(layer[i], RoundDiv(img[i] * Scale, 255))]

\* ---------------------------------------------------------- backPropagate
\* float learningRate = 0.1
learningRate == RoundDiv(Scale, 10)

\* nodeVal += vpLayerB[i]->getWeight(j) * resultErrorRate[j], j < n
RECURSIVE NodeVal(_, _, _)
NodeVal(neuron, err, n) ==
    IF n = 0 THEN 0
    ELSE NodeVal(neuron, err, n - 1) + Mul(getWeight(neuron, n), err[n])

\* DeltaWjk[i][j] = learningRate * resultErrorRate[j] * vpLayerB[i]->getNodeValue()
GradientWjk(neuron, err, nC) ==
    [j \in 1..nC |-> Mul(Mul(learningRate, err[j]), getNodeValue(neuron))]

\* the textbook derivative: s is the stored activation itself
HiddenDeltaPlain(neuron, err, nC) ==
    LET sigmoid == getNodeValue(neuron)
    IN  Mul(Mul(NodeVal(neuron, err, nC), sigmoid), Scale - sigmoid)

\* float sigmoid = applySigmoidFunction(vpLayerB[i]->getNodeValue());
\* DeltaJ[i] = nodeVal * sigmoid * (1 - sigmoid)
HiddenDelta(neuron, err, nC) ==
    LET sigmoid == applySigmoidFunction(getNodeValue(neuron))
    IN  Mul(Mul(NodeVal(neuron, err, nC), sigmoid), Scale - sigmoid)

\* second loop: vpLayerA[i]->setWeight(j, oldWeight + learningRate * DeltaJ[j] * value)
UpdateInputHidden(vpLayerA, deltaJ, nB) ==
    [i \in 1..Len(vpLayerA) |->
        [vpLayerA[i] EXCEPT !.m_vWeights =
            [j \in DOMAIN @ |->
                IF j <= nB
                THEN @[j] + Mul(Mul(learningRate, deltaJ[j]), getNodeValue(vpLayerA[i]))
                ELSE @[j]]]]

\* a third loop that subtracts the gradient
UpdateHiddenOutputMinus(vpLayerB, deltaWjk, nC) ==
    [i \in 1..Len(vpLayerB) |->
        [vpLayerB[i] EXCEPT !.m_vWeights =
            [j \in DOMAIN @ |-> IF j <= nC THEN @[j] - deltaWjk[i][j] ELSE @[j]]]]

\* third loop: vpLayerB[i]->setWeight(j, oldWeight + DeltaWjk[i][j])
UpdateHiddenOutput(vpLayerB, deltaWjk, nC) ==
    [i \in 1..Len(vpLayerB) |->
        [vpLayerB[i] EXCEPT !.m_vWeights =
            [j \in DOMAIN @ |-> IF j <= nC THEN @[j] + deltaWjk[i][j] ELSE @[j]]]]

\* every getWeight/setWeight index of backPropagate is inside its row
BackPropInRange(vpLayerA, vpLayerB, vpLayerC) ==
    /\ \A i \in 1..Len(vpLayerB) : \A j \in 1..Len(vpLayerC) :
           WeightIndexOK(vpLayerB[i], j)
    /\ \A i \in 1..Len(vpLayerA) : \A j \in 1..Len(vpLayerB) :
           WeightIndexOK(vpLayerA[i], j)

\* ------------------------------------------------------------------ main
Init ==
    /\ RngInit
    /\ pc = "start"
    /\ vpInputLayer = <<>> /\ vpHiddenLayer = <<>> /\ vpOutputLayer = <<>>
    /\ trainDataDigit = <<>> /\ testDataDigit = <<>>
    /\ k = 0 /\ z = 0
    /\ resultErrorRate = <<>> /\ DeltaWjk = <<>> /\ DeltaJ = <<>>
    /\ number = -1 /\ correct = 0 /\ uncorrect = 0
    /\ ub = {}
    /\ entry = <<>> /\ processed = <<>> /\ steps = <<>>
    /\ dotLog = [p \in {"IH", "HO"} |-> <<>>]

\* lines 94-101: the three layers
CreateLayersWide ==
    /\ pc = "start"
    /\ vpInputLayer' = [i \in 1..NumInput |-> CNeuron(NumHidden, 0)]
    /\ vpHiddenLayer' = [i \in 1..NumHidden |-> CNeuron(NumOutput, 0)]
    /\ vpOutputLayer' = [i \in 1..NumOutput |-> CNeuron(NumHidden, 0)]
    /\ pc' = "readTrain"
    /\ UNCHANGED <<trainDataDigit, testDataDigit, k, z, resultErrorRate, DeltaWjk,
                   DeltaJ, number, correct, uncorrect, ub, entry, processed, steps,
                   dotLog, rngVars>>

CreateLayers ==
    /\ pc = "start"
    /\ vpInputLayer' = [i \in 1..NumInput |-> CNeuron(NumHidden, 0)]
    /\ vpHiddenLayer' = [i \in 1..NumHidden |-> CNeuron(NumOutput, 0)]
    /\ vpOutputLayer' = [i \in 1..NumOutput |-> CNeuron(0, 0)]
    /\ pc' = "readTrain"
    /\ UNCHANGED <<trainDataDigit, testDataDigit, k, z, resultErrorRate, DeltaWjk,
                   DeltaJ, number, correct, uncorrect, ub, entry, processed, steps,
                   dotLog, rngVars>>

\* lines 103-104: the training images are drawn sample by sample in
\* LoadTrainSample; the labels are read here
ReadTrainData ==
    /\ pc = "readTrain"
    /\ \E file \in GtFiles(DataSize) : trainDataDigit' = readGroundTruth(file)
    /\ pc' = "assertTrain"
    /\ UNCHANGED <<vpInputLayer, vpHiddenLayer, vpOutputLayer, testDataDigit, k, z,
                   resultErrorRate, DeltaWjk, DeltaJ, number, correct, uncorrect, ub,
                   entry, processed, steps, dotLog, rngVars>>

\* line 105: assert(trainDataDigit.size() == dataSize), assertions compiled
\* in: a failed assertion aborts the program
AssertTrainSize ==
    /\ pc = "assertTrain"
    /\ pc' = IF Len(trainDataDigit) = DataSize THEN "initWeights" ELSE "aborted"
    /\ UNCHANGED <<vpInputLayer, vpHiddenLayer, vpOutputLayer, trainDataDigit,
                   testDataDigit, k, z, resultErrorRate, DeltaWjk, DeltaJ, number,
                   correct, uncorrect, ub, entry, processed, steps, dotLog, rngVars>>

\* where the training loop goes with index kk: its body, or past the loop
TrainLoop(kk) == IF kk < DataSize THEN "load" ELSE "readTest"
\* where the testing loop goes with index zz
TestLoop(zz) == IF zz < TestDataSize THEN "tload" ELSE "done"

\* lines 107-111: random weights, hidden layer first, then k = 0 of line 114
InitWeights ==
    /\ pc = "initWeights"
    /\ \E seed \in SeedVals :
         LET d == DrawMany([generator |-> generator, log |-> rngLog], MainThread,
                           "U", seed,
                           WeightCount(vpHiddenLayer) + WeightCount(vpInputLayer))
         IN  /\ vpHiddenLayer' = InitLayer(vpHiddenLayer, d.raws, 0)
             /\ vpInputLayer' = InitLayer(vpInputLayer, d.raws, WeightCount(vpHiddenLayer))
             /\ generator' = d.generator
             /\ rngLog' = d.log
    /\ k' = 0
    /\ pc' = TrainLoop(0)
    /\ UNCHANGED <<vpOutputLayer, trainDataDigit, testDataDigit, z, resultErrorRate,
                   DeltaWjk, DeltaJ, number, correct, uncorrect, ub, entry, processed,
                   steps, dotLog>>

\* lines 115-118
LoadTrainSample ==
    /\ pc = "load"
    /\ \E img \in Images : vpInputLayer' = LoadImage(vpInputLayer, img)
    /\ steps' = <<"load">>
    /\ pc' = "fwdIH"
    /\ UNCHANGED <<vpHiddenLayer, vpOutputLayer, trainDataDigit, testDataDigit, k, z,
                   resultErrorRate, DeltaWjk, DeltaJ, number, correct, uncorrect, ub,
                   entry, processed, dotLog, rngVars>>

\* dotProd(vpInputLayer, vpHiddenLayer) at pc `at', continuing at `to'
ForwardIH(at, to) ==
    /\ pc = at
    /\ vpHiddenLayer' = dotProd(vpInputLayer, vpHiddenLayer)
    /\ dotLog' = [dotLog EXCEPT !["IH"] = LogCall(@, vpInputLayer, vpHiddenLayer')]
    /\ ub' = IF DotProdInRange(vpInputLayer, vpHiddenLayer) THEN ub
             ELSE ub \cup {"weight"}
    /\ pc' = to
    /\ UNCHANGED <<vpInputLayer, vpOutputLayer, trainDataDigit, testDataDigit, k, z,
                   resultErrorRate, DeltaWjk, DeltaJ, number, correct, uncorrect,
                   entry, processed, rngVars>>

\* dotProd(vpHiddenLayer, vpOutputLayer) at pc `at', continuing at `to'
ForwardHO(at, to) ==
    /\ pc = at
    /\ vpOutputLayer' = dotProd(vpHiddenLayer, vpOutputLayer)
    /\ dotLog' = [dotLog EXCEPT !["HO"] = LogCall(@, vpHiddenLayer, vpOutputLayer')]
    /\ ub' = IF DotProdInRange(vpHiddenLayer, vpOutputLayer) THEN ub
             ELSE ub \cup {"weight"}
    /\ pc' = to
    /\ UNCHANGED <<vpInputLayer, vpHiddenLayer, trainDataDigit, testDataDigit, k, z,
                   resultErrorRate, DeltaWjk, DeltaJ, number, correct, uncorrect,
                   entry, processed, rngVars>>

\* line 120
TrainForwardIH == ForwardIH("fwdIH", "fwdHO") /\ steps' = Append(steps, "fwdIH")
\* line 121
TrainForwardHO == ForwardHO("fwdHO", "error") /\ steps' = Append(steps, "fwdHO")

\* lines 123-127: one-hot target minus output
ComputeError ==
    /\ pc = "error"
    /\ resultErrorRate' =
         [i \in 1..Len(vpOutputLayer) |->
             (IF trainDataDigit[k + 1] = i - 1 THEN Scale ELSE 0)
             - getNodeValue(vpOutputLayer[i])]
    /\ steps' = Append(steps, "error")
    /\ pc' = "bp1"
    /\ UNCHANGED <<vpInputLayer, vpHiddenLayer, vpOutputLayer, trainDataDigit,
                   testDataDigit, k, z, DeltaWjk, DeltaJ, number, correct, uncorrect,
                   ub, entry, processed, dotLog, rngVars>>

\* backPropagate, first loop (lines 205-213); `eager' also writes each
\* hidden->output weight as soon as its gradient is known
GradientLoop(eager) ==
    /\ pc = "bp1"
    /\ DeltaWjk' = [i \in 1..Len(vpHiddenLayer) |->
                       GradientWjk(vpHiddenLayer[i], resultErrorRate, Len(vpOutputLayer))]
    /\ DeltaJ' = [i \in 1..Len(vpHiddenLayer) |->
                     HiddenDelta(vpHiddenLayer[i], resultErrorRate, Len(vpOutputLayer))]
    /\ vpHiddenLayer' = IF eager
                        THEN UpdateHiddenOutput(vpHiddenLayer, DeltaWjk', Len(vpOutputLayer))
                        ELSE vpHiddenLayer
    /\ entry' = [A |-> vpInputLayer, B |-> vpHiddenLayer]
    /\ ub' = IF BackPropInRange(vpInputLayer, vpHiddenLayer, vpOutputLayer) THEN ub
             ELSE ub \cup {"weight"}
    /\ steps' = Append(steps, "backPropagate")
    /\ pc' = "bp2"
    /\ UNCHANGED <<vpInputLayer, vpOutputLayer, trainDataDigit, testDataDigit, k, z,
                   resultErrorRate, number, correct, uncorrect, processed, dotLog,
                   rngVars>>

BP_GradientsEager == GradientLoop(TRUE)

BP_Gradients == GradientLoop(FALSE)

\* backPropagate, second loop (lines 215-221)
BP_UpdateInputHidden ==
    /\ pc = "bp2"
    /\ vpInputLayer' = UpdateInputHidden(vpInputLayer, DeltaJ, Len(vpHiddenLayer))
    /\ pc' = "bp3"
    /\ UNCHANGED <<vpHiddenLayer, vpOutputLayer, trainDataDigit, testDataDigit, k, z,
                   resultErrorRate, DeltaWjk, DeltaJ, number, correct, uncorrect, ub,
                   entry, processed, steps, dotLog, rngVars>>

\* a loop increment that skips every other sample
NextIndexSkip(kk) == kk + 2

\* line 114: k++
NextIndex(kk) == kk + 1

\* backPropagate, third loop (lines 223-228), the return, and k++ of line 114
BP_UpdateHiddenOutput ==
    /\ pc = "bp3"
    /\ vpHiddenLayer' = UpdateHiddenOutput(vpHiddenLayer, DeltaWjk, Len(vpOutputLayer))
    /\ processed' = Append(processed, k)
    /\ k' = NextIndex(k)
    /\ pc' = TrainLoop(k')
    /\ UNCHANGED <<vpInputLayer, vpOutputLayer, trainDataDigit, testDataDigit, z,
                   resultErrorRate, DeltaWjk, DeltaJ, number, correct, uncorrect, ub,
                   entry, steps, dotLog, rngVars>>

\* lines 135-139: the test images are drawn sample by sample in
\* LoadTestSample; the test labels are read here, and their count is not
\* checked
ReadTestData ==
    /\ pc = "readTest"
    /\ \E file \in GtFiles(TestDataSize) : testDataDigit' = readGroundTruth(file)
    /\ correct' = 0 /\ uncorrect' = 0 /\ z' = 0
    /\ pc' = TestLoop(0)
    /\ UNCHANGED <<vpInputLayer, vpHiddenLayer, vpOutputLayer, trainDataDigit, k,
                   resultErrorRate, DeltaWjk, DeltaJ, number, ub, entry, processed,
                   steps, dotLog, rngVars>>

\* lines 148-151
LoadTestSample ==
    /\ pc = "tload"
    /\ \E img \in Images : vpInputLayer' = LoadImage(vpInputLayer, img)
    /\ pc' = "tfwdIH"
    /\ UNCHANGED <<vpHiddenLayer, vpOutputLayer, trainDataDigit, testDataDigit, k, z,
                   resultErrorRate, DeltaWjk, DeltaJ, number, correct, uncorrect, ub,
                   entry, processed, steps, dotLog, rngVars>>

\* line 153
TestForwardIH == ForwardIH("tfwdIH", "tfwdHO") /\ UNCHANGED steps
\* line 154
TestForwardHO == ForwardHO("tfwdHO", "predict") /\ UNCHANGED steps

\* the scan of lines 161-168 over the first n predictions, with a strict
\* comparison
RECURSIVE ArgmaxScanStrict(_, _, _)
ArgmaxScanStrict(allPredictions, n, garbage) ==
    IF n = 0 THEN [maxAccuracy |-> 0, number |-> garbage]
    ELSE LET prev == ArgmaxScanStrict(allPredictions, n - 1, garbage)
         IN  IF allPredictions[n] > prev.maxAccuracy
             THEN [maxAccuracy |-> allPredictions[n], number |-> n - 1]
             ELSE prev

\* lines 161-168: float maxAccuracy = 0; int number (not initialised);
\* if (allPredictionsforDigits[i] >= maxAccuracy) { maxAccuracy = ...; number = i; }
RECURSIVE ArgmaxScan(_, _, _)
ArgmaxScan(allPredictions, n, garbage) ==
    IF n = 0 THEN [maxAccuracy |-> 0, number |-> garbage]
    ELSE LET prev == ArgmaxScan(allPredictions, n - 1, garbage)
         IN  IF allPredictions[n] >= prev.maxAccuracy
             THEN [maxAccuracy |-> allPredictions[n], number |-> n - 1]
             ELSE prev

\* lines 156-168: `number' starts as whatever the stack holds
Predict ==
    /\ pc = "predict"
    /\ \E garbage \in {-1, 0} :
         number' = ArgmaxScan(Values(vpOutputLayer), Len(vpOutputLayer), garbage).number
    /\ pc' = "score"
    /\ UNCHANGED <<vpInputLayer, vpHiddenLayer, vpOutputLayer, trainDataDigit,
                   testDataDigit, k, z, resultErrorRate, DeltaWjk, DeltaJ, correct,
                   uncorrect, ub, entry, processed, steps, dotLog, rngVars>>

\* line 170 and z++ of line 147: testDataDigit[z] past the end of the vector
\* reads whatever byte lies there
Score ==
    /\ pc = "score"
    /\ \E label \in (IF z < Len(testDataDigit) THEN {testDataDigit[z + 1]}
                     ELSE {0, 255}) :
         /\ correct' = IF number = label THEN correct + 1 ELSE correct
         /\ uncorrect' = IF number = label THEN uncorrect ELSE uncorrect + 1
    /\ ub' = IF z < Len(testDataDigit) THEN ub ELSE ub \cup {"label"}
    /\ z' = z + 1
    /\ pc' = TestLoop(z')
    /\ UNCHANGED <<vpInputLayer, vpHiddenLayer, vpOutputLayer, trainDataDigit,
                   testDataDigit, k, resultErrorRate, DeltaWjk, DeltaJ, number, entry,
                   processed, steps, dotLog, rngVars>>

Next ==
    \/ CreateLayers
    \/ ReadTrainData
    \/ AssertTrainSize
    \/ InitWeights
    \/ LoadTrainSample
    \/ TrainForwardIH
    \/ TrainForwardHO
    \/ ComputeError
    \/ BP_Gradients
    \/ BP_UpdateInputHidden
    \/ BP_UpdateHiddenOutput
    \/ ReadTestData
    \/ LoadTestSample
    \/ TestForwardIH
    \/ TestForwardHO
    \/ Predict
    \/ Score

\* the program: a single thread running main
Spec == Init /\ [][Next]_vars

\* the random facility called from several threads, in any interleaving
NextRandom == Call_u \/ Call_U \/ Call_N

SpecRandom == Init /\ [][NextRandom]_vars
\* ---------------------------------------------------------------- properties
\* the sum of the values of a function with a finite domain, in any order
RECURSIVE SumFn(_)
SumFn(f) == IF DOMAIN f = {} THEN 0
            ELSE LET x == CHOOSE y \in DOMAIN f : TRUE
                 IN  f[x] + SumFn([y \in DOMAIN f \ {x} |-> f[y]])

MaxOf(S) == CHOOSE x \in S : \A y \in S : y <= x
MinOf(S) == CHOOSE x \in S : \A y \in S : x <= y

\* the 0-based indices at which the output activations are maximal
MaxIndices ==
    LET v == Values(vpOutputLayer)
    IN  {i - 1 : i \in {j \in 1..Len(v) : \A l \in 1..Len(v) : v[l] <= v[j]}}

\* C1 as stated: the predicted class is the lowest index holding the maximum
\* output activation.
C1_LowestMaxIndex == pc = "score" => number = MinOf(MaxIndices)

\* C1 amended: the scan compares with >=, so a later equal activation
\* overwrites the earlier one: the predicted class is the highest index
\* holding the maximum output activation.
C1_HighestMaxIndex == pc = "score" => number = MaxOf(MaxIndices)

C1_Witness == pc = "score" /\ Cardinality(MaxIndices) >= 2 /\ number = MaxOf(MaxIndices)

InBackPropagate == pc \in {"bp2", "bp3"}
AfterBackPropagate == pc \in {"load", "readTest"} /\ Len(processed) > 0

\* C2: inside backPropagate, once the gradient loop has run and until the
\* third loop, the hidden layer (weights and activations) is as it was on
\* entry, and every DeltaWjk and DeltaJ is the function of that entry state;
\* the input->hidden weights then move by learningRate * DeltaJ * input
\* activation computed from them; and the call leaves the hidden activations
\* as they were.
C2_GradientsBeforeWrites ==
    /\ InBackPropagate =>
         /\ vpHiddenLayer = entry.B
         /\ \A i \in 1..NumHidden :
              /\ DeltaWjk[i] = GradientWjk(entry.B[i], resultErrorRate, NumOutput)
              /\ DeltaJ[i] = HiddenDelta(entry.B[i], resultErrorRate, NumOutput)
    /\ pc = "bp3" =>
         \A i \in 1..NumInput : \A j \in 1..NumHidden :
            /\ getNodeValue(vpInputLayer[i]) = getNodeValue(entry.A[i])
            /\ getWeight(vpInputLayer[i], j) =
                 getWeight(entry.A[i], j)
                 + Mul(Mul(learningRate,
                           HiddenDelta(entry.B[j], resultErrorRate, NumOutput)),
                       getNodeValue(entry.A[i]))
    /\ AfterBackPropagate => Values(vpHiddenLayer) = Values(entry.B)

C2_Witness ==
    /\ pc = "bp3"
    /\ \E i \in 1..NumHidden : \E j \in 1..NumOutput : DeltaWjk[i][j] # 0
    /\ \E i \in 1..NumInput : \E j \in 1..NumHidden :
          getWeight(vpInputLayer[i], j) # getWeight(entry.A[i], j)

RowLengths(layer) == {Len(layer[i].m_vWeights) : i \in 1..Len(layer)}

\* C3: once the layers are built, every input neuron's weight row has as many
\* entries as there are hidden neurons, every hidden neuron's as many as
\* there are output neurons, every output neuron's none; and no dotProd or
\* backPropagate call has indexed a weight outside its row.
C3_RowLengths ==
    pc # "start" =>
        /\ Len(vpInputLayer) = NumInput /\ RowLengths(vpInputLayer) = {NumHidden}
        /\ Len(vpHiddenLayer) = NumHidden /\ RowLengths(vpHiddenLayer) = {NumOutput}
        /\ Len(vpOutputLayer) = NumOutput /\ RowLengths(vpOutputLayer) = {0}
        /\ "weight" \notin ub

C3_Witness ==
    /\ pc = "readTest" /\ Len(processed) = DataSize
    /\ \E i \in 1..NumInput : \E j \in 1..NumHidden :
          getWeight(vpInputLayer[i], j) # getWeight(entry.A[i], j)

\* the hidden->output weights that C4 is about: positive output error,
\* non-negative hidden activation (as it was during the call)
UnderPredicted ==
    {<<i, j>> \in (1..NumHidden) \X (1..NumOutput) :
        resultErrorRate[j] > 0 /\ getNodeValue(entry.B[i]) >= 0}

\* C4 as stated: after a backPropagate call, each such weight is greater than
\* it was before the call.
C4_StrictIncrease ==
    AfterBackPropagate =>
        \A e \in UnderPredicted :
            getWeight(vpHiddenLayer[e[1]], e[2]) > getWeight(entry.B[e[1]], e[2])

\* C4 amended: each such weight is its old value plus the rounded product
\* learningRate * outputError * activation, which is never negative: the
\* weight never decreases, and it is greater than before exactly when that
\* product is not zero; a hidden activation of 0 leaves it unchanged.
C4_NeverDecreases ==
    AfterBackPropagate =>
        \A e \in UnderPredicted :
            LET old == getWeight(entry.B[e[1]], e[2])
                new == getWeight(vpHiddenLayer[e[1]], e[2])
                inc == Mul(Mul(learningRate, resultErrorRate[e[2]]),
                           getNodeValue(entry.B[e[1]]))
            IN  /\ new = old + inc
                /\ inc >= 0
                /\ new >= old
                /\ getNodeValue(entry.B[e[1]]) = 0 => new = old

C4_Witness ==
    /\ AfterBackPropagate
    /\ \E e \in UnderPredicted :
          /\ getNodeValue(entry.B[e[1]]) = 0
          /\ getWeight(vpHiddenLayer[e[1]], e[2]) = getWeight(entry.B[e[1]], e[2])
    /\ \E e \in UnderPredicted :
          getWeight(vpHiddenLayer[e[1]], e[2]) > getWeight(entry.B[e[1]], e[2])

\* C5: whatever the interleaving of calls of u, U and N, the generator of a
\* thread and function exists exactly when that thread has called that
\* function, it has been seeded once and no more, and it has been advanced
\* once per call of its own thread and by nothing else.
C5_OwnGenerator ==
    \A s \in Slots :
        /\ generator[s].init <=> rngLog.calls[s] >= 1
        /\ rngLog.seedings[s] = (IF rngLog.calls[s] >= 1 THEN 1 ELSE 0)
        /\ rngLog.advances[s] = rngLog.calls[s]

C5_Witness ==
    \E f \in Funcs : rngLog.calls[<<1, f>>] >= 2 /\ rngLog.calls[<<2, f>>] >= 1

TrainCompute == {"fwdIH", "fwdHO", "error", "bp1", "bp2", "bp3"}
TestCompute == {"tfwdIH", "tfwdHO", "predict", "score"}

\* C6: no forward pass, backPropagate call or label lookup runs, in the
\* training phase or in the testing phase, unless the labels read for that
\* phase number exactly as many as its samples.
C6_LabelCountChecked ==
    /\ pc \in TrainCompute => Len(trainDataDigit) = DataSize
    /\ pc \in TestCompute => Len(testDataDigit) = TestDataSize

SampleSteps == <<"load", "fwdIH", "fwdHO", "error", "backPropagate">>

\* what has been done for the current sample at each position of the loop body
StepsAt ==
    [p \in {"fwdIH", "fwdHO", "error", "bp1", "bp2", "bp3"} |->
        SubSeq(SampleSteps, 1, CASE p = "fwdIH" -> 1 [] p = "fwdHO" -> 2
                                 [] p = "error" -> 3 [] p = "bp1" -> 4
                                 [] OTHER -> 5)]

TrainingOrder ==
    /\ processed = [i \in 1..k |-> i - 1]
    /\ k <= DataSize
    /\ pc \in DOMAIN StepsAt => steps = StepsAt[pc] /\ k < DataSize
    /\ AfterBackPropagate => steps = SampleSteps
    /\ pc \in TestCompute \cup {"readTest", "tload", "done"} => k = DataSize

\* steps left in the training loop: whole samples to go, and what is left of
\* the current one
Rank ==
    (DataSize - k) * 8
    + (CASE pc = "load" -> 7 [] pc = "fwdIH" -> 6 [] pc = "fwdHO" -> 5
         [] pc = "error" -> 4 [] pc = "bp1" -> 3 [] pc = "bp2" -> 2
         [] pc = "bp3" -> 1 [] OTHER -> 0)

\* C7: the samples completed are always 0, 1, ..., k-1 in that order, each
\* taken through load, forward input->hidden, forward hidden->output, error,
\* backPropagate in that order; every step of the training loop lowers the
\* number of steps left, which is never negative, so the loop ends; and it is
\* left only with all DataSize samples done.
C7_TrainingRunsOnceThroughAll ==
    [][/\ TrainingOrder'
       /\ pc \in {"load"} \cup TrainCompute => (Rank' < Rank /\ Rank' >= 0)
       /\ pc' = "readTest" => processed' = [i \in 1..DataSize |-> i - 1]]_vars

C7_Witness == pc = "readTest" /\ Len(processed) = DataSize /\ DataSize >= 2

\* C8: two consecutive dotProd calls on the same layer pair whose upstream
\* layer (weights and activations) is the same give the same downstream
\* activations, whatever the downstream neurons held before; and right after
\* a call the upstream layer is as it was when the call was made.
C8_SameInputSameOutput ==
    /\ \A p \in {"IH", "HO"} :
          (Len(dotLog[p]) = 2 /\ dotLog[p][1].A = dotLog[p][2].A)
              => dotLog[p][1].out = dotLog[p][2].out
    /\ pc \in {"fwdHO", "tfwdHO"} =>
          /\ vpInputLayer = dotLog["IH"][Len(dotLog["IH"])].A
          /\ Values(vpHiddenLayer) = dotLog["IH"][Len(dotLog["IH"])].out
    /\ pc \in {"error", "predict"} =>
          /\ vpHiddenLayer = dotLog["HO"][Len(dotLog["HO"])].A
          /\ Values(vpOutputLayer) = dotLog["HO"][Len(dotLog["HO"])].out

C8_Witness ==
    /\ pc \in {"fwdHO", "tfwdHO"}
    /\ Len(dotLog["IH"]) = 2 /\ dotLog["IH"][1].A = dotLog["IH"][2].A
    /\ \E j \in 1..NumHidden : getNodeValue(vpHiddenLayer[j]) \notin {0, Scale}

\* sigmoid of the sum, over all neurons of `up', of weight(j) * value
DenseActivation(up, j) ==
    applySigmoidFunction(
        SumFn([i \in 1..Len(up) |-> Mul(up[i].m_vWeights[j], up[i].m_value)]))

\* C9: after dotProd(upstream, downstream) every downstream neuron j holds the
\* sigmoid of the sum over all upstream neurons i of weight_i(j) * value_i.
C9_DenseForward ==
    /\ pc \in {"fwdHO", "tfwdHO"} =>
          /\ Len(vpHiddenLayer) = NumHidden
          /\ \A j \in 1..NumHidden :
                getNodeValue(vpHiddenLayer[j]) = DenseActivation(vpInputLayer, j)
    /\ pc \in {"error", "predict"} =>
          /\ Len(vpOutputLayer) = NumOutput
          /\ \A j \in 1..NumOutput :
                getNodeValue(vpOutputLayer[j]) = DenseActivation(vpHiddenLayer, j)

C9_Witness ==
    /\ pc = "fwdHO"
    /\ \A i \in 1..NumInput : getNodeValue(vpInputLayer[i]) = Scale
    /\ \E j \in 1..NumHidden :
          /\ \A i \in 1..NumInput : getWeight(vpInputLayer[i], j) # 0
          /\ getNodeValue(vpHiddenLayer[j]) \notin {0, Scale \div 2, Scale}

\* C10: for every hidden neuron i, DeltaJ[i] is (sum over k of weight_i(k) *
\* outputError[k], weights as on entry) * s * (1 - s), where s is the sigmoid
\* of the stored activation of neuron i.
C10_DeltaUsesSigmoidOfActivation ==
    InBackPropagate =>
        \A i \in 1..NumHidden :
            LET s == applySigmoidFunction(entry.B[i].m_value)
                back == SumFn([j \in 1..NumOutput |->
                                  Mul(entry.B[i].m_vWeights[j], resultErrorRate[j])])
            IN  DeltaJ[i] = Mul(Mul(back, s), Scale - s)

C10_Witness ==
    /\ pc = "bp2"
    /\ \E i \in 1..NumHidden :
          /\ DeltaJ[i] # 0
          /\ applySigmoidFunction(entry.B[i].m_value) # entry.B[i].m_value
====
